---------------------------- MODULE Spec2Model ----------------------------
(***************************************************************************)
(* Model of the Rick and Morty character catalog business logic            *)
(* (src/valid.py): the record parser, the filter and sort engine, the      *)
(* validator, the statistics service and the caching catalog service.      *)
(*                                                                         *)
(* Text the code inspects character by character (names, enum labels,      *)
(* episode URLs) is a sequence of one-character strings; text the code     *)
(* only stores (type, image, url, location names) is an opaque string.     *)
(***************************************************************************)
EXTENDS Integers, Sequences, FiniteSets, TLC

VARIABLES
    data,        \* the raw input handed to the parser / returned by the transport
    characters,  \* the in-memory character list handed to the engine
    result,      \* what the last operation returned (op = "init" before any call)
    cache        \* CatalogService._cache: character id -> Character

vars == <<data, characters, result, cache>>

(***************************************************************************)
(* Bounds of the model.                                                    *)
(***************************************************************************)
MaxUrls == 3
MaxRecords == 3
MaxChars == 2
MaxSortChars == 4
MaxStatChars == 6
MaxPageRecords == 2
MaxPage == 1

(***************************************************************************)
(* Python str primitives over sequences of characters.                     *)
(***************************************************************************)
Digits == <<"0", "1", "2", "3", "4", "5", "6", "7", "8", "9">>

Upper ==
    << "A", "B", "C", "D", "E", "F", "G", "H", "I", "J", "K", "L", "M",
       "N", "O", "P", "Q", "R", "S", "T", "U", "V", "W", "X", "Y", "Z" >>

Letters ==
    << "a", "b", "c", "d", "e", "f", "g", "h", "i", "j", "k", "l", "m",
       "n", "o", "p", "q", "r", "s", "t", "u", "v", "w", "x", "y", "z" >>

\* ord(c): the code point of a character (the ASCII characters the model uses)
Ord ==
    (" " :> 32) @@ ("+" :> 43) @@ ("-" :> 45) @@ ("." :> 46) @@ ("/" :> 47)
    @@ (":" :> 58) @@ ("_" :> 95)
    @@ [c \in {Digits[i] : i \in 1..10} |-> 47 + (CHOOSE i \in 1..10 : Digits[i] = c)]
    @@ [c \in {Upper[i] : i \in 1..26} |-> 64 + (CHOOSE i \in 1..26 : Upper[i] = c)]
    @@ [c \in {Letters[i] : i \in 1..26} |-> 96 + (CHOOSE i \in 1..26 : Letters[i] = c)]

\* str.lower() on one character, then on a string
LowerChar(c) == IF Ord[c] >= 65 /\ Ord[c] <= 90 THEN Letters[Ord[c] - 64] ELSE c

Lower(s) == [i \in 1..Len(s) |-> LowerChar(s[i])]

IsSpace(c) == c = " "

RECURSIVE LStrip(_)
LStrip(s) == IF s # <<>> /\ IsSpace(Head(s)) THEN LStrip(Tail(s)) ELSE s

RECURSIVE RStrip(_, _)
RStrip(s, c) ==
    IF s # <<>> /\ s[Len(s)] = c THEN RStrip(SubSeq(s, 1, Len(s) - 1), c) ELSE s

\* str.strip(): leading and trailing whitespace removed
Strip(s) == RStrip(LStrip(s), " ")

\* "needle in haystack" for strings
Contains(haystack, needle) ==
    \E i \in 0..(Len(haystack) - Len(needle)) :
        SubSeq(haystack, i + 1, i + Len(needle)) = needle

\* s < t for strings: lexicographic by code point
RECURSIVE StrLess(_, _)
StrLess(s, t) ==
    IF t = <<>> THEN FALSE
    ELSE IF s = <<>> THEN TRUE
    ELSE IF Ord[Head(s)] # Ord[Head(t)] THEN Ord[Head(s)] < Ord[Head(t)]
    ELSE StrLess(Tail(s), Tail(t))

\* the last element of s.split on the slash: what follows the last slash (the whole string without one)
RECURSIVE LastSegment(_)
LastSegment(s) ==
    IF s = <<>> THEN <<>>
    ELSE IF s[Len(s)] = "/" THEN <<>>
    ELSE Append(LastSegment(SubSeq(s, 1, Len(s) - 1)), s[Len(s)])

IsDigit(c) == Ord[c] >= 48 /\ Ord[c] <= 57

\* the body of an integer literal: digits, single underscores between digits
IsDigits(s) ==
    /\ s # <<>>
    /\ IsDigit(s[1]) /\ IsDigit(s[Len(s)])
    /\ \A i \in 1..Len(s) : IsDigit(s[i]) \/ s[i] = "_"
    /\ \A i \in 1..(Len(s) - 1) : ~(s[i] = "_" /\ s[i + 1] = "_")

RECURSIVE DigitsValue(_)
DigitsValue(s) ==
    IF s = <<>> THEN 0
    ELSE IF s[Len(s)] = "_" THEN DigitsValue(SubSeq(s, 1, Len(s) - 1))
    ELSE 10 * DigitsValue(SubSeq(s, 1, Len(s) - 1)) + (Ord[s[Len(s)]] - 48)

HasSign(s) == s # <<>> /\ s[1] \in {"+", "-"}

Unsigned(s) == IF HasSign(s) THEN Tail(s) ELSE s

\* int(s) succeeds (no ValueError)
IntOk(s) == IsDigits(Unsigned(Strip(s)))

\* int(s), when it succeeds
IntValue(s) ==
    LET t == Strip(s)
    IN  IF HasSign(t) /\ t[1] = "-"
        THEN 0 - DigitsValue(Unsigned(t))
        ELSE DigitsValue(Unsigned(t))

(***************************************************************************)
(* Enums.  A member is named by its Python name; XValue gives its label.   *)
(***************************************************************************)
CharacterStatus == <<"ALIVE", "DEAD", "UNKNOWN">>

StatusValue(m) ==
    CASE m = "ALIVE" -> <<"A", "l", "i", "v", "e">>
      [] m = "DEAD" -> <<"D", "e", "a", "d">>
      [] m = "UNKNOWN" -> <<"u", "n", "k", "n", "o", "w", "n">>

Gender == <<"MALE", "FEMALE", "GENDERLESS", "UNKNOWN">>

GenderValue(m) ==
    CASE m = "MALE" -> <<"M", "a", "l", "e">>
      [] m = "FEMALE" -> <<"F", "e", "m", "a", "l", "e">>
      [] m = "GENDERLESS" -> <<"G", "e", "n", "d", "e", "r", "l", "e", "s", "s">>
      [] m = "UNKNOWN" -> <<"u", "n", "k", "n", "o", "w", "n">>

Species == <<"HUMAN", "ALIEN", "HUMANOID", "ROBOT", "ANIMAL", "UNKNOWN">>

SpeciesValue(m) ==
    CASE m = "HUMAN" -> <<"H", "u", "m", "a", "n">>
      [] m = "ALIEN" -> <<"A", "l", "i", "e", "n">>
      [] m = "HUMANOID" -> <<"H", "u", "m", "a", "n", "o", "i", "d">>
      [] m = "ROBOT" -> <<"R", "o", "b", "o", "t">>
      [] m = "ANIMAL" -> <<"A", "n", "i", "m", "a", "l">>
      [] m = "UNKNOWN" -> <<"u", "n", "k", "n", "o", "w", "n">>

\* for member in cls: if member.value.lower() == value.lower().strip(): return member
RECURSIVE StatusScan(_, _)
StatusScan(i, value) ==
    IF i > Len(CharacterStatus) THEN "UNKNOWN"
    ELSE IF Lower(StatusValue(CharacterStatus[i])) = Strip(Lower(value))
         THEN CharacterStatus[i]
         ELSE StatusScan(i + 1, value)

StatusFromString(value) == StatusScan(1, value)

RECURSIVE GenderScan(_, _)
GenderScan(i, value) ==
    IF i > Len(Gender) THEN "UNKNOWN"
    ELSE IF Lower(GenderValue(Gender[i])) = Strip(Lower(value))
         THEN Gender[i]
         ELSE GenderScan(i + 1, value)

GenderFromString(value) == GenderScan(1, value)

RECURSIVE SpeciesScan(_, _)
SpeciesScan(i, value) ==
    IF i > Len(Species) THEN "UNKNOWN"
    ELSE IF Lower(SpeciesValue(Species[i])) = Strip(Lower(value))
         THEN Species[i]
         ELSE SpeciesScan(i + 1, value)

SpeciesFromString(value) == SpeciesScan(1, value)

(***************************************************************************)
(* Raw JSON values.  A dict is a function whose domain is the set of keys  *)
(* present; an entry of an episode list is tagged with its Python type.    *)
(***************************************************************************)
None == "None"

\* dict.get(key, default)
Get(d, key, default) == IF key \in DOMAIN d THEN d[key] ELSE default

EmptyDict == [k \in {} |-> None]

Str(text) == [type |-> "str", value |-> text]

NoneEntry == [type |-> "NoneType", value |-> <<>>]

(***************************************************************************)
(* CharacterParser                                                         *)
(***************************************************************************)
\* mutant: the except clause forgets AttributeError
ExtractCaughtNoAttribute == {"ValueError", "IndexError"}

\* the exceptions the loop of _extract_ids_from_urls catches
ExtractCaught == {"ValueError", "IndexError", "AttributeError"}

\* int(url.rstrip('/').split('/')[-1]): the exception it raises ("none": no
\* exception) and the integer it yields
SegmentToId(segment) ==
    IF IntOk(segment)
    THEN [exc |-> "none", id |-> IntValue(segment)]
    ELSE [exc |-> "ValueError", id |-> 0]

UrlToId(url) ==
    IF url.type # "str" THEN [exc |-> "AttributeError", id |-> 0]
    ELSE SegmentToId(LastSegment(RStrip(url.value, "/")))

\* the for loop of _extract_ids_from_urls from position i on, ids so far;
\* ExtractStep is one turn of it, r the outcome of the conversion
RECURSIVE ExtractLoop(_, _, _)
ExtractStep(urls, i, ids, r) ==
    IF r.exc = "none" THEN ExtractLoop(urls, i + 1, Append(ids, r.id))
    ELSE IF r.exc \in ExtractCaught THEN ExtractLoop(urls, i + 1, ids)
    ELSE [raised |-> r.exc, ids |-> ids]

ExtractLoop(urls, i, ids) ==
    IF i > Len(urls) THEN [raised |-> "none", ids |-> ids]
    ELSE ExtractStep(urls, i, ids, UrlToId(urls[i]))

ExtractIdsFromUrls(urls) == ExtractLoop(urls, 1, <<>>)

ParseLocation(d) == [name |-> Get(d, "name", "Unknown"), url |-> Get(d, "url", "")]

\* the strings datetime.fromisoformat accepts, among those the model feeds it
IsoFormats == {"2017-11-04T18:48:46.250+00:00", "2017-11-04T18:48:46"}

\* date_string.replace('Z', '+00:00') on the timestamps the model uses
ReplaceZ(date_string) ==
    IF date_string = "2017-11-04T18:48:46.250Z"
    THEN "2017-11-04T18:48:46.250+00:00"
    ELSE date_string

ParseDatetime(date_string) ==
    IF date_string = "" THEN None
    ELSE IF ReplaceZ(date_string) \in IsoFormats THEN ReplaceZ(date_string)
    ELSE None

\* mutant: 'status' is treated as a required field too
MissingRequiredOrStatus(d) ==
    "id" \notin DOMAIN d \/ "name" \notin DOMAIN d \/ "status" \notin DOMAIN d

\* the guard of parse_character: the record is refused
MissingRequired(d) == "id" \notin DOMAIN d \/ "name" \notin DOMAIN d

Unknown == <<"u", "n", "k", "n", "o", "w", "n">>

\* parse_character: raised names the exception that leaves the call ("none":
\* it returned), value holds the Character returned
BuildCharacter(d, ep) ==
    IF ep.raised # "none"
    THEN [raised |-> ep.raised, value |-> <<>>]
    ELSE [raised |-> "none",
                   value |-> << [id |-> d["id"],
                                 name |-> d["name"],
                                 status |-> StatusFromString(Get(d, "status", Unknown)),
                                 species |-> SpeciesFromString(Get(d, "species", Unknown)),
                                 type |-> Get(d, "type", ""),
                                 gender |-> GenderFromString(Get(d, "gender", Unknown)),
                                 origin |-> ParseLocation(Get(d, "origin", EmptyDict)),
                                 location |-> ParseLocation(Get(d, "location", EmptyDict)),
                                 image_url |-> Get(d, "image", ""),
                                 episode_ids |-> ep.ids,
                                 url |-> Get(d, "url", ""),
                                 created |-> ParseDatetime(Get(d, "created", ""))] >>]

ParseCharacter(d) ==
    IF MissingRequired(d)
    THEN [raised |-> "JsonParseError", value |-> <<>>]
    ELSE BuildCharacter(d, ExtractIdsFromUrls(Get(d, "episode", <<>>)))

\* Character.episode_count
EpisodeCount(c) == Len(c.episode_ids)

\* mutant: the loop has no try/except
ListCaughtNothing == {}

\* the exceptions the loop of parse_character_list catches
ListCaught == {"JsonParseError"}

\* the for loop of parse_character_list from position i on; ParseStep is one
\* turn of it, r the outcome of parse_character
RECURSIVE ParseLoop(_, _, _)
ParseStep(results, i, chars, r) ==
    IF r.raised = "none" THEN ParseLoop(results, i + 1, chars \o r.value)
    ELSE IF r.raised \in ListCaught THEN ParseLoop(results, i + 1, chars)
    ELSE [raised |-> r.raised, characters |-> chars]

ParseLoop(results, i, chars) ==
    IF i > Len(results) THEN [raised |-> "none", characters |-> chars]
    ELSE ParseStep(results, i, chars, ParseCharacter(results[i]))

Pagination(d) ==
    LET info == Get(d, "info", EmptyDict)
    IN  [count |-> Get(info, "count", 0),
         pages |-> Get(info, "pages", 0),
         next |-> Get(info, "next", None),
         prev |-> Get(info, "prev", None)]

\* parse_character_list
ListOutcome(d, r) ==
    [raised |-> r.raised,
     characters |-> IF r.raised = "none" THEN r.characters ELSE <<>>,
     pagination |-> Pagination(d)]

ParseCharacterList(d) == ListOutcome(d, ParseLoop(Get(d, "results", <<>>), 1, <<>>))

(***************************************************************************)
(* FilterCriteria and FilterEngine.filter_characters.  An Optional field   *)
(* is <<>> when None and <<v>> when set to v.                              *)
(***************************************************************************)
Unset == <<>>

Some(v) == <<v>>

IsNone(opt) == opt = <<>>

\* FilterCriteria.is_empty
IsEmpty(criteria) ==
    /\ IsNone(criteria.name) /\ IsNone(criteria.status) /\ IsNone(criteria.species)
    /\ IsNone(criteria.gender) /\ IsNone(criteria.min_episodes)
    /\ IsNone(criteria.max_episodes)

\* truth value of an Optional[str]: None and "" are false
TruthyStr(opt) == ~IsNone(opt) /\ opt[1] # <<>>

\* truth value of an Optional[Enum]: every member is true
TruthyEnum(opt) == ~IsNone(opt)

\* truth value of an Optional[int]: None and 0 are false
TruthyInt(opt) == ~IsNone(opt) /\ opt[1] # 0

NamePass(list, criteria) ==
    IF TruthyStr(criteria.name)
    THEN SelectSeq(list, LAMBDA c : Contains(Lower(c.name), Lower(criteria.name[1])))
    ELSE list

StatusPass(list, criteria) ==
    IF TruthyEnum(criteria.status)
    THEN SelectSeq(list, LAMBDA c : c.status = criteria.status[1])
    ELSE list

SpeciesPass(list, criteria) ==
    IF TruthyEnum(criteria.species)
    THEN SelectSeq(list, LAMBDA c : c.species = criteria.species[1])
    ELSE list

GenderPass(list, criteria) ==
    IF TruthyEnum(criteria.gender)
    THEN SelectSeq(list, LAMBDA c : c.gender = criteria.gender[1])
    ELSE list

\* mutant: the lower bound is exclusive
MinPassStrict(list, criteria) ==
    IF ~IsNone(criteria.min_episodes)
    THEN SelectSeq(list, LAMBDA c : EpisodeCount(c) > criteria.min_episodes[1])
    ELSE list

MinPass(list, criteria) ==
    IF ~IsNone(criteria.min_episodes)
    THEN SelectSeq(list, LAMBDA c : EpisodeCount(c) >= criteria.min_episodes[1])
    ELSE list

\* mutant: the pass removes from the list it is iterating over, so the element
\* after a removed one is skipped
RECURSIVE RemoveWhileIterating(_, _, _)
RemoveWhileIterating(list, i, bound) ==
    IF i > Len(list) THEN list
    ELSE IF EpisodeCount(list[i]) <= bound
         THEN RemoveWhileIterating(list, i + 1, bound)
         ELSE RemoveWhileIterating(
                  SubSeq(list, 1, i - 1) \o SubSeq(list, i + 1, Len(list)), i + 1, bound)

MaxPassInPlace(list, criteria) ==
    IF ~IsNone(criteria.max_episodes)
    THEN RemoveWhileIterating(list, 1, criteria.max_episodes[1])
    ELSE list

MaxPass(list, criteria) ==
    IF ~IsNone(criteria.max_episodes)
    THEN SelectSeq(list, LAMBDA c : EpisodeCount(c) <= criteria.max_episodes[1])
    ELSE list

\* FilterEngine.filter_characters
FilterCharacters(list, criteria) ==
    IF IsEmpty(criteria) THEN list
    ELSE MaxPass(MinPass(GenderPass(SpeciesPass(StatusPass(
             NamePass(list, criteria), criteria), criteria), criteria), criteria), criteria)

\* the caller's list after filter_characters returned: the passes work on a
\* copy and build new lists
ListAfterFilter(list, criteria) == list

(***************************************************************************)
(* FilterEngine.sort_characters.  sorted() is a stable sort: on short      *)
(* lists a binary insertion sort that puts an element after the elements   *)
(* it does not precede; with reverse=True it reverses the list, sorts it   *)
(* and reverses the outcome.                                               *)
(***************************************************************************)
SortField == {"ID", "NAME", "STATUS", "EPISODES"}

SortOrder == {"ASC", "DESC"}

\* key_func(a) < key_func(b) for the key of key_map[field]
KeyLess(field, a, b) ==
    CASE field = "ID" -> a.id < b.id
      [] field = "NAME" -> StrLess(Lower(a.name), Lower(b.name))
      [] field = "STATUS" -> StrLess(StatusValue(a.status), StatusValue(b.status))
      [] field = "EPISODES" -> EpisodeCount(a) < EpisodeCount(b)

Reverse(list) == [i \in 1..Len(list) |-> list[Len(list) + 1 - i]]

\* x inserted into the sorted list before the first element it precedes
Insert(sorted, field, x) ==
    LET before == {i \in 1..Len(sorted) : KeyLess(field, x, sorted[i])}
        at == IF before = {} THEN Len(sorted) + 1
              ELSE CHOOSE i \in before : \A j \in before : i <= j
    IN  SubSeq(sorted, 1, at - 1) \o <<x>> \o SubSeq(sorted, at, Len(sorted))

RECURSIVE InsertionSort(_, _, _, _)
InsertionSort(list, field, i, sorted) ==
    IF i > Len(list) THEN sorted
    ELSE InsertionSort(list, field, i + 1, Insert(sorted, field, list[i]))

\* mutant: reverse=True only reverses the ascending outcome
SortedReversedAfter(list, field, reverse) ==
    IF reverse
    THEN Reverse(InsertionSort(list, field, 1, <<>>))
    ELSE InsertionSort(list, field, 1, <<>>)

\* sorted(list, key=key_map[field], reverse=reverse)
Sorted(list, field, reverse) ==
    IF reverse
    THEN Reverse(InsertionSort(Reverse(list), field, 1, <<>>))
    ELSE InsertionSort(list, field, 1, <<>>)

\* FilterEngine.sort_characters
SortCharacters(list, criteria) == Sorted(list, criteria.field, criteria.order = "DESC")

(***************************************************************************)
(* CharacterValidator.validate                                             *)
(***************************************************************************)
IdError == [field |-> "id", message |-> "ID must be positive"]

NameError == [field |-> "name", message |-> "Name cannot be empty"]

\* mutant: the name rule is only looked at when the id rule passed
ValidationErrorsShortCircuit(c) ==
    IF c.id <= 0 THEN <<IdError>>
    ELSE IF c.name = <<>> \/ Strip(c.name) = <<>> THEN <<NameError>> ELSE <<>>

\* the errors list validate builds
ValidationErrors(c) ==
    (IF c.id <= 0 THEN <<IdError>> ELSE <<>>)
    \o (IF c.name = <<>> \/ Strip(c.name) = <<>> THEN <<NameError>> ELSE <<>>)

Validate(c) ==
    LET errors == ValidationErrors(c)
    IN  IF errors # <<>>
        THEN [is_valid |-> FALSE, errors |-> errors]
        ELSE [is_valid |-> TRUE, errors |-> <<>>]

(***************************************************************************)
(* StatisticsService.calculate                                             *)
(***************************************************************************)
TopN == 5

\* dict(Counter(labels))
Counter(labels) ==
    [l \in {labels[i] : i \in 1..Len(labels)} |->
        Cardinality({i \in 1..Len(labels) : labels[i] = l})]

RECURSIVE SumEpisodes(_)
SumEpisodes(list) ==
    IF list = <<>> THEN 0 ELSE EpisodeCount(Head(list)) + SumEpisodes(Tail(list))

\* round(total / n, 2) in hundredths, ties to the even hundredth
RoundedAverage(total, n) ==
    LET q == (100 * total) \div n
        r == (100 * total) % n
    IN  IF 2 * r > n \/ (2 * r = n /\ q % 2 = 1) THEN q + 1 ELSE q

\* mutant: the ranking is sorted ascending
TopCharactersAscending(list) ==
    LET top == SubSeq(Sorted(list, "EPISODES", FALSE), 1,
                      IF Len(list) < TopN THEN Len(list) ELSE TopN)
    IN  [i \in 1..Len(top) |-> <<top[i].name, EpisodeCount(top[i])>>]

\* sorted(characters, key=episode_count, reverse=True)[:5] as (name, count) pairs
TopCharacters(list) ==
    LET top == SubSeq(Sorted(list, "EPISODES", TRUE), 1,
                      IF Len(list) < TopN THEN Len(list) ELSE TopN)
    IN  [i \in 1..Len(top) |-> <<top[i].name, EpisodeCount(top[i])>>]

Calculate(list) ==
    IF list = <<>>
    THEN [total_characters |-> 0,
          status_distribution |-> EmptyDict,
          species_distribution |-> EmptyDict,
          gender_distribution |-> EmptyDict,
          avg_episodes |-> 0,
          top_characters |-> <<>>]
    ELSE [total_characters |-> Len(list),
          status_distribution |-> Counter([i \in 1..Len(list) |-> StatusValue(list[i].status)]),
          species_distribution |-> Counter([i \in 1..Len(list) |-> SpeciesValue(list[i].species)]),
          gender_distribution |-> Counter([i \in 1..Len(list) |-> GenderValue(list[i].gender)]),
          avg_episodes |-> RoundedAverage(SumEpisodes(list), Len(list)),
          top_characters |-> TopCharacters(list)]

(***************************************************************************)
(* Inputs of the parser.                                                   *)
(***************************************************************************)
BoundedSeq(S, n) == UNION {[1..k -> S] : k \in 0..n}

Restrict(d, D) == [k \in D |-> d[k]]

Keys ==
    {"id", "name", "status", "species", "type", "gender", "origin", "location",
     "image", "episode", "url", "created"}

Rick == <<"R", "i", "c", "k">>

Morty == <<"M", "o", "r", "t", "y">>

Earth == [name |-> "Earth", url |-> "https://rickandmortyapi.com/api/location/1"]

UrlPool ==
    { Str(<<"e", "/", "1">>), Str(<<"e", "/", "2", "/">>),
      Str(<<"e", "/", "1", "2", "/", "/">>), Str(<<"e", "/", "-", "1">>),
      Str(<<"b", "a", "d">>), Str(<<>>), Str(<<"/">>), NoneEntry }

FullRecord ==
    [id |-> 1, name |-> Rick,
     status |-> <<"A", "l", "i", "v", "e">>,
     species |-> <<"H", "u", "m", "a", "n">>,
     type |-> "Scientist",
     gender |-> <<"M", "a", "l", "e">>,
     origin |-> Earth, location |-> Earth,
     image |-> "x.png",
     episode |-> <<Str(<<"e", "/", "1">>), Str(<<"e", "/", "2">>), Str(<<"b", "a", "d">>)>>,
     url |-> "https://rickandmortyapi.com/api/character/1",
     created |-> "2017-11-04T18:48:46.250Z"]

\* labels as the API may spell them
StatusLabels == {<<"A", "l", "i", "v", "e">>, <<" ", "D", "E", "A", "D", " ">>, <<"z">>}

SpeciesLabels == {<<"r", "o", "b", "o", "t">>, <<"A", "l", "i", "e", "n">>, <<>>}

GenderLabels == {<<"F", "E", "M", "A", "L", "E">>, <<"G", "e", "n", "d", "e", "r", "l", "e", "s", "s">>}

CreatedTexts == {"", "2017-11-04T18:48:46", "yesterday"}

\* one record with every pattern of absent fields
AbsenceRecords == {Restrict(FullRecord, D) : D \in SUBSET Keys}

LabelRecords ==
    {[id |-> 2, name |-> Morty, status |-> st, species |-> sp, gender |-> g, created |-> cr] :
        st \in StatusLabels, sp \in SpeciesLabels, g \in GenderLabels, cr \in CreatedTexts}

EpisodeRecords ==
    {[id |-> 3, name |-> Morty, episode |-> urls] : urls \in BoundedSeq(UrlPool, MaxUrls)}

RecordPool ==
    { FullRecord,
      Restrict(FullRecord, {"id", "name"}),
      Restrict(FullRecord, Keys \ {"id"}),
      Restrict(FullRecord, Keys \ {"name"}),
      Restrict(FullRecord, {"status"}),
      [id |-> 2, name |-> Morty, episode |-> <<NoneEntry, Str(<<"e", "/", "7", "/">>)>>] }

InfoPool ==
    { [count |-> 826, pages |-> 42, next |-> "https://rickandmortyapi.com/api/character?page=2",
       prev |-> None],
      [count |-> 1] }

Payloads ==
    {[info |-> i, results |-> rs] : i \in InfoPool, rs \in BoundedSeq(RecordPool, MaxRecords)}
    \cup {[results |-> rs] : rs \in BoundedSeq(RecordPool, MaxRecords)}
    \cup {EmptyDict}

ParserInputs == AbsenceRecords \cup LabelRecords \cup EpisodeRecords \cup Payloads

NoResult == [op |-> "init"]

InitParser ==
    /\ data \in ParserInputs
    /\ characters = <<>>
    /\ result = NoResult
    /\ cache = EmptyDict

\* a call of CharacterParser.parse_character(data)
parse_character ==
    /\ result' = [op |-> "parse_character", out |-> ParseCharacter(data)]
    /\ UNCHANGED <<data, characters, cache>>

\* a call of CharacterParser.parse_character_list(data)
parse_character_list ==
    /\ result' = [op |-> "parse_character_list", out |-> ParseCharacterList(data)]
    /\ UNCHANGED <<data, characters, cache>>

NextParser == parse_character \/ parse_character_list

SpecParser == InitParser /\ [][NextParser]_vars

(***************************************************************************)
(* Claims about the parser.                                                *)
(***************************************************************************)
HasRequired(d) == "id" \in DOMAIN d /\ "name" \in DOMAIN d

DefaultLocation == [name |-> "Unknown", url |-> ""]

\* the Character c carries the default of every field absent from record d
AbsentFieldsDefault(d, c) ==
    /\ "status" \notin DOMAIN d => c.status = "UNKNOWN"
    /\ "species" \notin DOMAIN d => c.species = "UNKNOWN"
    /\ "gender" \notin DOMAIN d => c.gender = "UNKNOWN"
    /\ "type" \notin DOMAIN d => c.type = ""
    /\ "image" \notin DOMAIN d => c.image_url = ""
    /\ "url" \notin DOMAIN d => c.url = ""
    /\ "origin" \notin DOMAIN d => c.origin = DefaultLocation
    /\ "location" \notin DOMAIN d => c.location = DefaultLocation
    /\ "episode" \notin DOMAIN d => c.episode_ids = <<>>
    /\ "created" \notin DOMAIN d => c.created = None

\* C1: parse_character fails with JsonParseError when the record lacks 'id' or
\* 'name'; for every record with both keys it returns a Character, whichever
\* other fields are absent, and each absent field takes its default.
C1_ParseCharacterTotalOnRequired ==
    result.op = "parse_character" =>
        /\ ~HasRequired(data) => result.out.raised = "JsonParseError"
        /\ HasRequired(data) =>
              /\ result.out.raised = "none"
              /\ Len(result.out.value) = 1
              /\ result.out.value[1].id = data["id"]
              /\ result.out.value[1].name = data["name"]
              /\ AbsentFieldsDefault(data, result.out.value[1])

\* a record with only 'id' and 'name' was parsed into a Character
C1_Witness ==
    /\ result.op = "parse_character"
    /\ DOMAIN data = {"id", "name"}
    /\ result.out.raised = "none"
    /\ result.out.value[1].status = "UNKNOWN"

\* the parse of the records of rs that have both required keys, in order
RECURSIVE ParsedGoodRecords(_)
ParsedGoodRecords(rs) ==
    IF rs = <<>> THEN <<>>
    ELSE IF HasRequired(Head(rs))
         THEN ParseCharacter(Head(rs)).value \o ParsedGoodRecords(Tail(rs))
         ELSE ParsedGoodRecords(Tail(rs))

\* C2: parse_character_list never aborts because of one bad record: the list
\* returned is exactly the parse of the records of 'results' that have both
\* 'id' and 'name', in input order; a record lacking one of them is skipped
\* and the records after it are still parsed.
C2_ParseListSkipsBadRecords ==
    result.op = "parse_character_list" =>
        /\ result.out.raised = "none"
        /\ result.out.characters = ParsedGoodRecords(Get(data, "results", <<>>))

\* a payload whose first record is bad and whose later record was still parsed
C2_Witness ==
    /\ result.op = "parse_character_list"
    /\ "results" \in DOMAIN data
    /\ Len(data["results"]) >= 2
    /\ ~HasRequired(data["results"][1])
    /\ HasRequired(data["results"][Len(data["results"])])
    /\ Len(result.out.characters) >= 1

\* the text of a URL without its trailing slashes: its longest prefix that
\* does not end with a slash
Stripped(text) ==
    LET k == CHOOSE j \in 0..Len(text) :
                 /\ j = 0 \/ text[j] # "/"
                 /\ \A i \in (j + 1)..Len(text) : text[i] = "/"
    IN  SubSeq(text, 1, k)

\* the last path segment: the longest slash-free suffix
Segment(text) ==
    LET k == CHOOSE j \in 0..Len(text) :
                 /\ j = 0 \/ text[j] = "/"
                 /\ \A i \in (j + 1)..Len(text) : text[i] # "/"
    IN  SubSeq(text, k + 1, Len(text))

UrlParses(url) == url.type = "str" /\ IntOk(Segment(Stripped(url.value)))

ParsedPositions(urls) == {i \in 1..Len(urls) : UrlParses(urls[i])}

\* C3: episode_ids is the sequence of the integers parsed from the last path
\* segment (trailing slashes stripped) of exactly the URLs that parse, in input
\* order; episode_count is the number of parsed URLs, at most the number of
\* input URLs; no parse failure propagates to the caller.
C3_EpisodeIdsAreParsedSurvivors ==
    (result.op = "parse_character" /\ HasRequired(data) /\ "episode" \in DOMAIN data) =>
        /\ result.out.raised = "none"
        /\ LET urls == data["episode"]
               c == result.out.value[1]
               P == ParsedPositions(urls)
           IN  /\ EpisodeCount(c) = Cardinality(P)
               /\ EpisodeCount(c) <= Len(urls)
               /\ \A i \in P :
                     c.episode_ids[Cardinality({j \in P : j <= i})]
                         = IntValue(Segment(Stripped(urls[i].value)))

\* a list with an unparseable entry between two parseable ones was reduced to
\* the two identifiers, in order
C3_Witness ==
    /\ result.op = "parse_character"
    /\ HasRequired(data) /\ "episode" \in DOMAIN data
    /\ Len(data["episode"]) = 3
    /\ ParsedPositions(data["episode"]) = {1, 3}
    /\ result.out.value[1].episode_ids = <<12, 2>>

(***************************************************************************)
(* The engine on in-memory lists: filter, sort, validate, statistics.      *)
(***************************************************************************)
Ids(n) == [i \in 1..n |-> i]

\* a Character with the fields the engine does not read left at their defaults
Mk(id, name, status, species, gender, episodes) ==
    [id |-> id, name |-> name, status |-> status, species |-> species, type |-> "",
     gender |-> gender, origin |-> DefaultLocation, location |-> DefaultLocation,
     image_url |-> "", episode_ids |-> Ids(episodes), url |-> "", created |-> None]

FilterPool ==
    { Mk(1, <<"R", "i">>, "ALIVE", "HUMAN", "MALE", 2),
      Mk(2, <<"r", "i">>, "DEAD", "HUMAN", "MALE", 1),
      Mk(3, <<"M", "o">>, "ALIVE", "ALIEN", "FEMALE", 0),
      Mk(4, <<"m">>, "ALIVE", "HUMAN", "FEMALE", 1),
      Mk(5, <<"R", "i">>, "ALIVE", "HUMAN", "MALE", 0),
      Mk(6, <<"i", "R">>, "UNKNOWN", "UNKNOWN", "UNKNOWN", 2) }

FilterCriteria ==
    [name : {Unset, Some(<<>>), Some(<<"r", "I">>), Some(<<"M">>)},
     status : {Unset, Some("ALIVE")},
     species : {Unset, Some("HUMAN")},
     gender : {Unset, Some("MALE")},
     min_episodes : {Unset, Some(0), Some(1)},
     max_episodes : {Unset, Some(0), Some(1)}]

NoCriteria ==
    [name |-> Unset, status |-> Unset, species |-> Unset, gender |-> Unset,
     min_episodes |-> Unset, max_episodes |-> Unset]

InitFilter ==
    /\ characters \in BoundedSeq(FilterPool, MaxChars)
    /\ data = EmptyDict
    /\ result = NoResult
    /\ cache = EmptyDict

\* a call of FilterEngine.filter_characters(characters, criteria) on the
\* list drawn initially
filter_characters ==
    \E criteria \in FilterCriteria :
        /\ result.op = "init"
        /\ result' = [op |-> "filter_characters", criteria |-> criteria,
                      input |-> characters, again |-> FALSE,
                      out |-> FilterCharacters(characters, criteria)]
        /\ characters' = ListAfterFilter(characters, criteria)
        /\ UNCHANGED <<data, cache>>

\* the list a call returned is filtered once more by the same criteria
filter_result_again ==
    /\ result.op = "filter_characters"
    /\ result' = [op |-> "filter_characters", criteria |-> result.criteria,
                  input |-> result.out, again |-> TRUE,
                  out |-> FilterCharacters(result.out, result.criteria)]
    /\ characters' = ListAfterFilter(result.out, result.criteria)
    /\ UNCHANGED <<data, cache>>

NextFilter == filter_characters \/ filter_result_again

SpecFilter == InitFilter /\ [][NextFilter]_vars

SortPool ==
    { Mk(2, <<"b">>, "ALIVE", "HUMAN", "MALE", 3),
      Mk(1, <<"B">>, "DEAD", "HUMAN", "MALE", 1),
      Mk(2, <<"a">>, "UNKNOWN", "ALIEN", "FEMALE", 3),
      Mk(3, <<"A", "b">>, "DEAD", "ROBOT", "UNKNOWN", 0) }

SortCriteria == [field : SortField, order : SortOrder]

InitSort ==
    /\ characters \in BoundedSeq(SortPool, MaxSortChars)
    /\ data = EmptyDict
    /\ result = NoResult
    /\ cache = EmptyDict

\* a call of FilterEngine.sort_characters(characters, criteria)
sort_characters ==
    \E criteria \in SortCriteria :
        /\ result' = [op |-> "sort_characters", criteria |-> criteria,
                      input |-> characters,
                      out |-> SortCharacters(characters, criteria)]
        /\ UNCHANGED <<data, characters, cache>>

NextSort == sort_characters

SpecSort == InitSort /\ [][NextSort]_vars

ValidatePool ==
    { Mk(id, name, "ALIVE", "HUMAN", "MALE", 1) :
        id \in {-1, 0, 1},
        name \in {<<>>, <<" ">>, <<" ", " ">>, <<"a">>, <<" ", "a", " ">>} }

InitValidate ==
    /\ characters \in BoundedSeq(ValidatePool, MaxChars)
    /\ data = EmptyDict
    /\ result = NoResult
    /\ cache = EmptyDict

\* a call of CharacterValidator.validate on one character of the list
validate ==
    \E i \in 1..Len(characters) :
        /\ result' = [op |-> "validate", character |-> characters[i],
                      out |-> Validate(characters[i])]
        /\ UNCHANGED <<data, characters, cache>>

NextValidate == validate

SpecValidate == InitValidate /\ [][NextValidate]_vars

StatsPool ==
    { Mk(1, <<"a">>, "ALIVE", "HUMAN", "MALE", 1),
      Mk(2, <<"b">>, "DEAD", "ALIEN", "FEMALE", 1),
      Mk(3, <<"c">>, "ALIVE", "HUMAN", "UNKNOWN", 2) }

InitStats ==
    /\ characters \in BoundedSeq(StatsPool, MaxStatChars)
    /\ data = EmptyDict
    /\ result = NoResult
    /\ cache = EmptyDict

\* a call of StatisticsService.calculate(characters)
calculate ==
    /\ result' = [op |-> "calculate", input |-> characters, out |-> Calculate(characters)]
    /\ UNCHANGED <<data, characters, cache>>

NextStats == calculate

SpecStats == InitStats /\ [][NextStats]_vars

(***************************************************************************)
(* Claims about the engine.                                                *)
(***************************************************************************)
\* needle occurs in text when case is ignored
SubstringIgnoringCase(needle, text) ==
    \E start \in 1..(Len(text) - Len(needle) + 1) :
        \A k \in 1..Len(needle) : LowerChar(text[start + k - 1]) = LowerChar(needle[k])

\* c satisfies every criterion that is set
Satisfies(c, criteria) ==
    /\ criteria.name # Unset => SubstringIgnoringCase(criteria.name[1], c.name)
    /\ criteria.status # Unset => c.status = criteria.status[1]
    /\ criteria.species # Unset => c.species = criteria.species[1]
    /\ criteria.gender # Unset => c.gender = criteria.gender[1]
    /\ criteria.min_episodes # Unset => Len(c.episode_ids) >= criteria.min_episodes[1]
    /\ criteria.max_episodes # Unset => Len(c.episode_ids) <= criteria.max_episodes[1]

\* out holds exactly the elements of list at the positions in keep, in order
IsSubsequenceAt(out, list, keep) ==
    /\ Len(out) = Cardinality(keep)
    /\ \A i \in keep : out[Cardinality({j \in keep : j <= i})] = list[i]

\* C4: filter_characters(C, F) is exactly the subsequence of C, in C's order,
\* of the characters satisfying the conjunction of all set criteria (name a
\* case-insensitive substring; status, species, gender equal; episode_count
\* within the inclusive bounds, a bound of 0 included); C is left unchanged.
C4_FilterIsConjunctionSubsequence ==
    result.op = "filter_characters" =>
        /\ IsSubsequenceAt(result.out, result.input,
               {i \in 1..Len(result.input) : Satisfies(result.input[i], result.criteria)})
        /\ characters = result.input

\* a filter with a name, an enum and a bound of 0 set kept one of two characters
C4_Witness ==
    /\ result.op = "filter_characters"
    /\ ~result.again
    /\ result.criteria.name = Some(<<"r", "I">>)
    /\ result.criteria.status # Unset
    /\ result.criteria.max_episodes = Some(0)
    /\ Len(result.input) = 2
    /\ Len(result.out) = 1

\* C5: filter(filter(C, F), F) = filter(C, F), and filter(C, F) = C when every
\* field of F is unset.
C5_FilterIdempotentAndIdentity ==
    result.op = "filter_characters" =>
        /\ result.again => result.out = result.input
        /\ result.criteria = NoCriteria => result.out = result.input

\* a filter that dropped a character was applied again to its own result
C5_Witness ==
    /\ result.op = "filter_characters"
    /\ result.again
    /\ result.criteria.max_episodes # Unset
    /\ Len(result.out) = 1
    /\ Len(characters) = 1

\* a and b have the same sort key
KeyEqual(field, a, b) == ~KeyLess(field, a, b) /\ ~KeyLess(field, b, a)

\* the place of list[i] in the stable ordering of list: after every element
\* that goes first by the key, and after the equal-keyed elements before it
StablePlace(list, criteria, i) ==
    1 + Cardinality({j \in 1..Len(list) :
            \/ IF criteria.order = "ASC"
               THEN KeyLess(criteria.field, list[j], list[i])
               ELSE KeyLess(criteria.field, list[i], list[j])
            \/ j < i /\ KeyEqual(criteria.field, list[j], list[i])})

\* C6: sort_characters returns a permutation of C ordered by the selected key
\* (id; lowercased name; status label; episode_count) in the requested
\* direction, stable in both directions; C is not modified.
C6_SortStablePermutation ==
    result.op = "sort_characters" =>
        /\ Len(result.out) = Len(result.input)
        /\ \A i \in 1..Len(result.input) :
              result.out[StablePlace(result.input, result.criteria, i)] = result.input[i]
        /\ \A i, j \in 1..Len(result.out) :
              i < j => IF result.criteria.order = "ASC"
                       THEN ~KeyLess(result.criteria.field, result.out[j], result.out[i])
                       ELSE ~KeyLess(result.criteria.field, result.out[i], result.out[j])
        /\ characters = result.input

\* the scenario of the specification: episode counts 3, 1, 3 sorted descending
\* keep the two tied characters in input order
C6_Witness ==
    /\ result.op = "sort_characters"
    /\ result.criteria = [field |-> "EPISODES", order |-> "DESC"]
    /\ Len(characters) = 3
    /\ EpisodeCount(characters[1]) = 3 /\ EpisodeCount(characters[2]) = 1
    /\ EpisodeCount(characters[3]) = 3
    /\ characters[1] # characters[3]
    /\ result.out = <<characters[1], characters[3], characters[2]>>

ErrorFields(errors) == {errors[i].field : i \in 1..Len(errors)}

\* s consists of whitespace only (or is empty)
Blank(s) == \A i \in 1..Len(s) : s[i] = " "

\* C7: validate has an 'id' error iff id <= 0 and a 'name' error iff the name
\* is empty after trimming, exactly one error per violated rule, and is_valid
\* iff the error list is empty.
C7_ValidateCollectsEveryViolation ==
    result.op = "validate" =>
        LET c == result.character
            errors == result.out.errors
        IN  /\ ("id" \in ErrorFields(errors)) <=> (c.id <= 0)
            /\ ("name" \in ErrorFields(errors)) <=> Blank(c.name)
            /\ ErrorFields(errors) \subseteq {"id", "name"}
            /\ Len(errors) = Cardinality(ErrorFields(errors))
            /\ result.out.is_valid <=> (errors = <<>>)

\* the scenario of the specification: id = -1 and an empty name give two errors
C7_Witness ==
    /\ result.op = "validate"
    /\ result.character.id = -1
    /\ result.character.name = <<>>
    /\ ~result.out.is_valid
    /\ Len(result.out.errors) = 2

Min(a, b) == IF a < b THEN a ELSE b

DescendingByEpisodes == [field |-> "EPISODES", order |-> "DESC"]

\* C8: top_characters has length min(5, |C|) and lists the (name,
\* episode_count) pairs of the first characters of C ordered by episode_count
\* descending, ties in input order; for empty C the result is total 0, empty
\* distributions and an empty top list.
C8_TopFiveStableDescending ==
    result.op = "calculate" =>
        LET C == result.input
            top == result.out.top_characters
        IN  /\ Len(top) = Min(TopN, Len(C))
            /\ \A i \in 1..Len(C) :
                  StablePlace(C, DescendingByEpisodes, i) <= TopN =>
                      top[StablePlace(C, DescendingByEpisodes, i)]
                          = <<C[i].name, Len(C[i].episode_ids)>>
            /\ C = <<>> =>
                  /\ result.out.total_characters = 0
                  /\ result.out.status_distribution = EmptyDict
                  /\ result.out.species_distribution = EmptyDict
                  /\ result.out.gender_distribution = EmptyDict
                  /\ top = <<>>

\* six characters, the best one last and ties before it: five are listed
C8_Witness ==
    /\ result.op = "calculate"
    /\ Len(characters) = 6
    /\ Len(result.out.top_characters) = 5
    /\ EpisodeCount(characters[6]) = 2
    /\ EpisodeCount(characters[1]) = 1
    /\ characters[1] # characters[2]
    /\ result.out.top_characters[1] = <<characters[6].name, 2>>
    /\ result.out.top_characters[2] = <<characters[1].name, 1>>

(***************************************************************************)
(* CatalogService: get_page and get_by_id over the transport and the cache.*)
(* A transport response is [ok |-> the request succeeded, json |-> body].  *)
(***************************************************************************)
\* FilterCriteria.to_api_params
ToApiParams(criteria) ==
    (IF TruthyStr(criteria.name) THEN "name" :> criteria.name[1] ELSE EmptyDict)
    @@ (IF TruthyEnum(criteria.status)
        THEN "status" :> StatusValue(criteria.status[1]) ELSE EmptyDict)
    @@ (IF TruthyEnum(criteria.species)
        THEN "species" :> SpeciesValue(criteria.species[1]) ELSE EmptyDict)
    @@ (IF TruthyEnum(criteria.gender)
        THEN "gender" :> GenderValue(criteria.gender[1]) ELSE EmptyDict)

\* params of the page request; filters is Unset or Some(FilterCriteria)
PageParams(page, filters) ==
    ("page" :> page) @@ (IF IsNone(filters) THEN EmptyDict ELSE ToApiParams(filters[1]))

\* for c in characters: self._cache[c.id] = c
RECURSIVE CacheAll(_, _)
CacheAll(c, list) ==
    IF list = <<>> THEN c
    ELSE CacheAll((Head(list).id :> Head(list)) @@ c, Tail(list))

\* the condition under which get_page filters locally
FiltersLocally(filters) ==
    ~IsNone(filters)
    /\ (TruthyInt(filters[1].min_episodes) \/ TruthyInt(filters[1].max_episodes))

PageInfo(current, total, count, has_next, has_prev) ==
    [current |-> current, total |-> total, count |-> count,
     has_next |-> has_next, has_prev |-> has_prev]

\* get_page once the transport answered: parsed is what parse_character_list
\* made of the body
PageOfParsed(c, page, filters, parsed) ==
    IF parsed.raised # "none"
    THEN [raised |-> parsed.raised, cache |-> c,
          out |-> [characters |-> <<>>, page_info |-> PageInfo(1, 1, 0, FALSE, FALSE)]]
    ELSE [raised |-> "none",
          cache |-> CacheAll(c, parsed.characters),
          out |-> [characters |->
                       IF FiltersLocally(filters)
                       THEN FilterCharacters(parsed.characters, filters[1])
                       ELSE parsed.characters,
                   page_info |->
                       PageInfo(page, parsed.pagination.pages,
                                parsed.pagination.count,
                                parsed.pagination.next # None,
                                parsed.pagination.prev # None)]]

\* get_page: what it returns (or raises) and the cache it leaves
GetPage(c, page, filters, response) ==
    IF ~response.ok
    THEN [raised |-> "none", cache |-> c,
          out |-> [characters |-> <<>>, page_info |-> PageInfo(1, 1, 0, FALSE, FALSE)]]
    ELSE PageOfParsed(c, page, filters, ParseCharacterList(response.json))

\* the exceptions get_by_id turns into None
GetByIdCaught == {"RequestException", "JsonParseError"}

\* get_by_id once the transport answered: parsed is what parse_character made
\* of the body
FetchedById(c, character_id, parsed) ==
    IF parsed.raised = "none"
    THEN [raised |-> "none", hit |-> FALSE,
          cache |-> (character_id :> parsed.value[1]) @@ c,
          out |-> parsed.value]
    ELSE IF parsed.raised \in GetByIdCaught
    THEN [raised |-> "none", hit |-> FALSE, cache |-> c, out |-> <<>>]
    ELSE [raised |-> parsed.raised, hit |-> FALSE, cache |-> c, out |-> <<>>]

\* get_by_id: out is <<>> for None and <<character>> otherwise
GetById(c, character_id, response) ==
    IF character_id \in DOMAIN c
    THEN [raised |-> "none", hit |-> TRUE, cache |-> c, out |-> <<c[character_id]>>]
    ELSE IF ~response.ok
    THEN [raised |-> "none", hit |-> FALSE, cache |-> c, out |-> <<>>]
    ELSE FetchedById(c, character_id, ParseCharacter(response.json))

CatalogRecords ==
    { [id |-> 1, name |-> Rick, status |-> <<"A", "l", "i", "v", "e">>,
       episode |-> <<Str(<<"e", "/", "1">>), Str(<<"e", "/", "2">>)>>],
      [id |-> 2, name |-> Morty],
      [name |-> Morty] }

CatalogPayloads ==
    {[info |-> [count |-> 826, pages |-> 42, next |-> "page=2", prev |-> None],
      results |-> rs] : rs \in BoundedSeq(CatalogRecords, MaxPageRecords)}

TransportError == [ok |-> FALSE, json |-> EmptyDict]

PageResponses == {TransportError} \cup {[ok |-> TRUE, json |-> p] : p \in CatalogPayloads}

RecordResponses == {TransportError} \cup {[ok |-> TRUE, json |-> r] : r \in CatalogRecords}

PageFilters ==
    {Unset}
    \cup {Some([NoCriteria EXCEPT !.min_episodes = lo, !.max_episodes = hi]) :
            lo \in {Unset, Some(0), Some(1)}, hi \in {Unset, Some(0), Some(1)}}

Pages == 1..MaxPage

RequestedIds == {1, 2}

\* CatalogService.__init__
InitCatalog ==
    /\ cache = EmptyDict
    /\ data = EmptyDict
    /\ characters = <<>>
    /\ result = NoResult

\* a call of CatalogService.get_page(page, filters) and the transport's answer
get_page ==
    \E page \in Pages, filters \in PageFilters, response \in PageResponses :
        \E r \in {GetPage(cache, page, filters, response)} :
            /\ cache' = r.cache
            /\ data' = response.json
            /\ result' = [op |-> "get_page", page |-> page, filters |-> filters,
                          params |-> PageParams(page, filters),
                          transport_ok |-> response.ok, raised |-> r.raised,
                          cache_before |-> cache, out |-> r.out]
            /\ UNCHANGED characters

\* a call of CatalogService.get_by_id(character_id) and the transport's answer
get_by_id ==
    \E character_id \in RequestedIds, response \in RecordResponses :
        \E r \in {GetById(cache, character_id, response)} :
            /\ cache' = r.cache
            /\ data' = IF r.hit THEN data ELSE response.json
            /\ result' = [op |-> "get_by_id", character_id |-> character_id,
                          hit |-> r.hit,
                          transport_ok |-> r.hit \/ response.ok, raised |-> r.raised,
                          cache_before |-> cache, out |-> r.out]
            /\ UNCHANGED characters

NextCatalog == get_page \/ get_by_id

SpecCatalog == InitCatalog /\ [][NextCatalog]_vars

(***************************************************************************)
(* Claims about the catalog service.                                       *)
(***************************************************************************)
\* C9: when get_page is called with min_episodes or max_episodes set (to any
\* integer, 0 included) and the transport succeeds, every character returned
\* has episode_count >= min_episodes and <= max_episodes, for each bound set.
C9_PageRespectsEpisodeBounds ==
    (result.op = "get_page" /\ result.transport_ok /\ result.filters # Unset) =>
        \A i \in 1..Len(result.out.characters) :
            LET c == result.out.characters[i]
                f == result.filters[1]
            IN  /\ f.min_episodes # Unset => EpisodeCount(c) >= f.min_episodes[1]
                /\ f.max_episodes # Unset => EpisodeCount(c) <= f.max_episodes[1]

\* a call that did not reach a parsed character: the transport failed, or the
\* record could not be parsed
CallFailed ==
    \/ result.op = "get_page" /\ (~result.transport_ok \/ result.raised # "none")
    \/ result.op = "get_by_id" /\ ~result.hit
          /\ (~result.transport_ok \/ result.raised # "none" \/ result.out = <<>>)

\* a failed call leaves the cache as it was, and a get_by_id of a cached id
\* returns the cached Character and leaves the cache as it was
FailureAndHitPreserveCache ==
    /\ CallFailed => cache = result.cache_before
    /\ (result.op = "get_by_id" /\ result.hit) =>
          /\ result.out = <<result.cache_before[result.character_id]>>
          /\ cache = result.cache_before

\* C10: after any sequence of get_page and get_by_id calls, every cache entry
\* under key k is a Character whose id is k; a call whose transport or parse
\* fails leaves the cache unchanged; get_by_id(k) for a cached k returns the
\* cached Character without changing the cache.
C10_CacheKeyedByCharacterId ==
    /\ \A k \in DOMAIN cache : cache[k].id = k
    /\ result.op \in {"get_page", "get_by_id"} => FailureAndHitPreserveCache

=============================================================================
